---- MODULE Spec2Model ----
(***************************************************************************)
(* Lab-report text extraction (processing.py) and its HTTP endpoint        *)
(* (main.py).                                                              *)
(*                                                                         *)
(* A Python str is a sequence of characters; a character is a one-letter   *)
(* TLA+ string, except the three non-ASCII code points the source uses,    *)
(* which are named by their code point.  Offsets are 1-based here (Python  *)
(* offsets are 0-based); a match is the half-open span [s, e).  A Python   *)
(* Optional[...] is Nil or Some(x).                                        *)
(***************************************************************************)
EXTENDS Integers, Sequences, FiniteSets, TLC

MicroSign == "U+00B5"
ACirc == "U+00C2"
aCirc == "U+00E2"

Nil == <<>>
Some(x) == <<x>>
IsNil(o) == Len(o) = 0
Get(o) == o[1]

NoMatch == [s |-> 0, e |-> 0]
Found(m) == m.s > 0
Span(s, e) == [s |-> s, e |-> e]
Group(str, m) == SubSeq(str, m.s, m.e - 1)

Min(S) == CHOOSE x \in S : \A y \in S : x <= y
Max(S) == CHOOSE x \in S : \A y \in S : x >= y

(***************************************************************************)
(* Character classes of Python's re on str patterns.                       *)
(***************************************************************************)
DigitChars == <<"0", "1", "2", "3", "4", "5", "6", "7", "8", "9">>
Digits == {DigitChars[k] : k \in 1..10}
UpperChars == <<"A", "B", "C", "D", "E", "F", "G", "H", "I", "J", "K", "L", "M",
                "N", "O", "P", "Q", "R", "S", "T", "U", "V", "W", "X", "Y", "Z", ACirc>>
LowerChars == <<"a", "b", "c", "d", "e", "f", "g", "h", "i", "j", "k", "l", "m",
                "n", "o", "p", "q", "r", "s", "t", "u", "v", "w", "x", "y", "z", aCirc>>
LowerMap == [c \in {UpperChars[k] : k \in 1..Len(UpperChars)} |->
               LowerChars[CHOOSE k \in 1..Len(UpperChars) : UpperChars[k] = c]]
AsciiLetters == {UpperChars[k] : k \in 1..26} \cup {LowerChars[k] : k \in 1..26}
Letters == AsciiLetters \cup {ACirc, aCirc, MicroSign}
DigitVal == [c \in Digits |-> (CHOOSE k \in 1..10 : DigitChars[k] = c) - 1]

\* str.lower() on one character
ToLower(c) == IF c \in DOMAIN LowerMap THEN LowerMap[c] ELSE c
\* str.lower()
Lower(str) == [k \in 1..Len(str) |-> ToLower(str[k])]

IsDigit(c) == c \in Digits
\* \w
IsWord(c) == c \in Digits \/ c \in Letters \/ c = "_"
\* \s and str.strip()'s whitespace
IsSpace(c) == c \in {" ", "\t"}

RECURSIVE LStrip(_)
LStrip(str) == IF Len(str) > 0 /\ IsSpace(str[1]) THEN LStrip(Tail(str)) ELSE str
RECURSIVE RStrip(_)
RStrip(str) == IF Len(str) > 0 /\ IsSpace(str[Len(str)])
               THEN RStrip(SubSeq(str, 1, Len(str) - 1)) ELSE str
\* str.strip()
Strip(str) == RStrip(LStrip(str))

\* the character at offset p, if any, is a word character
WordAt(str, p) == p >= 1 /\ p <= Len(str) /\ IsWord(str[p])
\* \b holds between offsets p-1 and p
Boundary(str, p) == WordAt(str, p - 1) # WordAt(str, p)
\* the literal (case-insensitively, re.IGNORECASE) starts at offset p
LitAt(str, p, lit) ==
    /\ p >= 1
    /\ p + Len(lit) - 1 <= Len(str)
    /\ \A k \in 1..Len(lit) : ToLower(str[p + k - 1]) = ToLower(lit[k])
CharAt(str, p, c) == p >= 1 /\ p <= Len(str) /\ str[p] = c

\* offset after the longest run of digits (\d*, greedy) that starts at p
RECURSIVE DigitsEnd(_, _)
DigitsEnd(str, p) == IF p <= Len(str) /\ IsDigit(str[p]) THEN DigitsEnd(str, p + 1) ELSE p
\* offset after the longest run of whitespace (\s*, greedy) that starts at p
RECURSIVE SpacesEnd(_, _)
SpacesEnd(str, p) == IF p <= Len(str) /\ IsSpace(str[p]) THEN SpacesEnd(str, p + 1) ELSE p
\* offset after \d+\.?\d* (greedy, nothing follows to force a backtrack); 0 if no digit
NumberEnd(str, p) ==
    LET d == DigitsEnd(str, p)
    IN IF d = p THEN 0
       ELSE IF CharAt(str, d, ".") THEN DigitsEnd(str, d + 1) ELSE d
\* offset after \d+\.?\d*\b: the greedy choice is the longest end at which \b holds
NumberEndB(str, p) ==
    LET d == DigitsEnd(str, p)
        ends == (p + 1)..d \cup
                (IF CharAt(str, d, ".") THEN (d + 1)..DigitsEnd(str, d + 1) ELSE {})
        ok == {e \in ends : Boundary(str, e)}
    IN IF d = p \/ ok = {} THEN 0 ELSE Max(ok)

\* re.search: the match at the leftmost offset at which the pattern matches, ends[p]
\* being the end of its match at offset p (0: none)
Search(ends) ==
    LET hits == {p \in DOMAIN ends : ends[p] > 0}
    IN IF hits = {} THEN NoMatch ELSE Span(Min(hits), ends[Min(hits)])

\* \bword\b at p for the first word of the alternation that matches; 0 if none
WordsAt(str, p, words) ==
    LET ok == {k \in 1..Len(words) :
                  LitAt(str, p, words[k]) /\ Boundary(str, p + Len(words[k]))}
    IN IF ~Boundary(str, p) \/ ok = {} THEN 0 ELSE p + Len(words[Min(ok)])

(***************************************************************************)
(* The lines a recognised text is made of.  The searches below are         *)
(* tabulated once over these lines (as given and stripped); a search of    *)
(* any other string is computed.                                           *)
(***************************************************************************)
Corpus == {
    \* "Hemoglobin 13.5 g/dL 13.0-17.0"
    <<"H", "e", "m", "o", "g", "l", "o", "b", "i", "n", " ", "1", "3", ".", "5", " ", "g", "/",
      "d", "L", " ", "1", "3", ".", "0", "-", "1", "7", ".", "0">>,
    \* "Total Leukocyte Count"
    <<"T", "o", "t", "a", "l", " ", "L", "e", "u", "k", "o", "c", "y", "t", "e", " ", "C", "o",
      "u", "n", "t">>,
    \* "8500 cells/µL 4000-11000"
    <<"8", "5", "0", "0", " ", "c", "e", "l", "l", "s", "/", MicroSign, "L", " ", "4", "0", "0",
      "0", "-", "1", "1", "0", "0", "0">>,
    \* "Test Name Result Unit Bio. Ref. Range"
    <<"T", "e", "s", "t", " ", "N", "a", "m", "e", " ", "R", "e", "s", "u", "l", "t", " ", "U",
      "n", "i", "t", " ", "B", "i", "o", ".", " ", "R", "e", "f", ".", " ", "R", "a", "n", "g",
      "e">>,
    \* "HIV Negative Negative"
    <<"H", "I", "V", " ", "N", "e", "g", "a", "t", "i", "v", "e", " ", "N", "e", "g", "a", "t",
      "i", "v", "e">>,
    \* "HIV Positive Negative"
    <<"H", "I", "V", " ", "P", "o", "s", "i", "t", "i", "v", "e", " ", "N", "e", "g", "a", "t",
      "i", "v", "e">>,
    \* "Glucose Abnormal"
    <<"G", "l", "u", "c", "o", "s", "e", " ", "A", "b", "n", "o", "r", "m", "a", "l">>,
    \* "VDRL Non Reactive"
    <<"V", "D", "R", "L", " ", "N", "o", "n", " ", "R", "e", "a", "c", "t", "i", "v", "e">>,
    \* "----"
    <<"-", "-", "-", "-">>,
    \* ""
    <<>>,
    \* "-------"
    <<"-", "-", "-", "-", "-", "-", "-">>,
    \* "Investigation Result Unit Range(1)"
    <<"I", "n", "v", "e", "s", "t", "i", "g", "a", "t", "i", "o", "n", " ", "R", "e", "s", "u",
      "l", "t", " ", "U", "n", "i", "t", " ", "R", "a", "n", "g", "e", "(", "1", ")">>,
    \* "WBC 11 3-10"
    <<"W", "B", "C", " ", "1", "1", " ", "3", "-", "1", "0">>,
    \* "8500"
    <<"8", "5", "0", "0">>,
    \* "Ab 5"
    <<"A", "b", " ", "5">>,
    \* "Page 1"
    <<"P", "a", "g", "e", " ", "1">>,
    \* "Hb (%) 12"
    <<"H", "b", " ", "(", "%", ")", " ", "1", "2">>,
    \* "Sodium : 140"
    <<"S", "o", "d", "i", "u", "m", " ", ":", " ", "1", "4", "0">>,
    \* "CRP 7 mg/L < 5"
    <<"C", "R", "P", " ", "7", " ", "m", "g", "/", "L", " ", "<", " ", "5">>,
    \* "Bilirubin 1.2 mg/dL Up to 1.0"
    <<"B", "i", "l", "i", "r", "u", "b", "i", "n", " ", "1", ".", "2", " ", "m", "g", "/", "d",
      "L", " ", "U", "p", " ", "t", "o", " ", "1", ".", "0">>,
    \* " RBC Count "
    <<" ", "R", "B", "C", " ", "C", "o", "u", "n", "t", " ">>,
    \* "Platelets (cu.mm)"
    <<"P", "l", "a", "t", "e", "l", "e", "t", "s", " ", "(", "c", "u", ".", "m", "m", ")">>,
    \* "Limit <5mg"
    <<"L", "i", "m", "i", "t", " ", "<", "5", "m", "g">> }

Scanned == Corpus \cup {Strip(l) : l \in Corpus}

(***************************************************************************)
(* The pattern set.                                                        *)
(***************************************************************************)
ValueWords == << <<"P", "o", "s", "i", "t", "i", "v", "e">>, <<"N", "e", "g", "a", "t", "i", "v",
                   "e">>, <<"D", "e", "t", "e", "c", "t", "e", "d">>, <<"N", "o", "n", " ", "R",
                   "e", "a", "c", "t", "i", "v", "e">>,
                 <<"R", "e", "a", "c", "t", "i", "v", "e">>, <<"N", "o", "r", "m", "a", "l">>,
                   <<"A", "b", "n", "o", "r", "n", "m", "a", "l">> >>

\* \b\d+\.\d+\b at p
DecimalAt(str, p) ==
    LET d == DigitsEnd(str, p)
        f == DigitsEnd(str, d + 1)
    IN IF Boundary(str, p) /\ d > p /\ CharAt(str, d, ".") /\ f > d + 1 /\ Boundary(str, f)
       THEN f ELSE 0
\* \b\d+\b at p
IntegerAt(str, p) ==
    LET d == DigitsEnd(str, p)
    IN IF Boundary(str, p) /\ d > p /\ Boundary(str, d) THEN d ELSE 0

\* VALUE_RE at p: the first alternative that matches
VALUE_RE_at(str, p) ==
    IF DecimalAt(str, p) > 0 THEN DecimalAt(str, p)
    ELSE IF IntegerAt(str, p) > 0 THEN IntegerAt(str, p)
    ELSE WordsAt(str, p, ValueWords)
ValueTable == [l \in Scanned |-> Search([p \in 1..Len(l) |-> VALUE_RE_at(l, p)])]
\* VALUE_RE.search(line)
VALUE_RE(str) ==
    IF str \in Scanned THEN ValueTable[str]
    ELSE Search([p \in 1..Len(str) |-> VALUE_RE_at(str, p)])

\* the alternation of UNIT_RE, in its order; an optional \.? is the two literals in
\* greedy order
UnitWords == << <<"%">>, <<"g", "/", "d", "L">>, <<"g", "m", "/", "d", "L">>, <<"m", "g", "/", "d",
                  "L">>, <<"S", "e", "c", "o", "n", "d", "s">>, <<"U", "/", "L">>, <<"I", "U", "/",
                  "L">>,
                <<"f", "l">>, <<"f", "L">>, <<"c", "u", ".", "m", "m">>, <<"c", "u", "m", "m">>,
                  <<"c", "e", "l", "l", "s", "/", ACirc, MicroSign, "L">>, <<"c", "e", "l", "l",
                  "s", "/", "u", "l">>,
                <<"m", "i", "l", "l", "i", "o", "n", "/", "c", "u", ".", "m", "m">>, <<"m", "i",
                  "l", "l", "i", "o", "n", "/", "c", "u", "m", "m">>, <<"m", "E", "q", "/", "L",
                  "i", "t", "r", "e">>, <<"m", "m", "o", "l", "/", "L">>,
                <<"p", "g", "/", "m", "L">>, <<"n", "g", "/", "m", "L">>, <<"H", ".", "P", ".",
                  "F", ".">>, <<"/", "H", "P", "F">> >>
UNIT_RE_at(str, p) == WordsAt(str, p, UnitWords)
UnitTable == [l \in Scanned |-> Search([p \in 1..Len(l) |-> UNIT_RE_at(l, p)])]
\* UNIT_RE.search(line)
UNIT_RE(str) ==
    IF str \in Scanned THEN UnitTable[str]
    ELSE Search([p \in 1..Len(str) |-> UNIT_RE_at(str, p)])

\* \b\d+\.?\d*\s*-\s*\d+\.?\d*\b at p
DashRangeAt(str, p) ==
    LET a == NumberEnd(str, p)
        dash == SpacesEnd(str, a)
    IN IF Boundary(str, p) /\ a > 0 /\ CharAt(str, dash, "-")
       THEN NumberEndB(str, SpacesEnd(str, dash + 1))
       ELSE 0
\* <\s*\d+\.?\d* (or >) at p
BoundRangeAt(str, p, sign) ==
    IF CharAt(str, p, sign) THEN NumberEnd(str, SpacesEnd(str, p + 1)) ELSE 0
\* \b\d+-\d+\b at p
PlainDashAt(str, p) ==
    LET d == DigitsEnd(str, p)
        f == DigitsEnd(str, d + 1)
    IN IF Boundary(str, p) /\ d > p /\ CharAt(str, d, "-") /\ f > d + 1 /\ Boundary(str, f)
       THEN f ELSE 0
\* [Uu]p [Tt]o \d+\.?\d* at p
UpToAt(str, p) ==
    IF LitAt(str, p, <<"U", "p", " ", "T", "o", " ">>) THEN NumberEnd(str, p + Len(<<"U", "p", " ",
                       "T", "o", " ">>)) ELSE 0
RangeWords == << <<"N", "e", "g", "a", "t", "i", "v", "e">>, <<"N", "o", "r", "m", "a", "l">> >>

\* RANGE_RE at p: the first alternative that matches
RANGE_RE_at(str, p) ==
    IF DashRangeAt(str, p) > 0 THEN DashRangeAt(str, p)
    ELSE IF BoundRangeAt(str, p, "<") > 0 THEN BoundRangeAt(str, p, "<")
    ELSE IF BoundRangeAt(str, p, ">") > 0 THEN BoundRangeAt(str, p, ">")
    ELSE IF PlainDashAt(str, p) > 0 THEN PlainDashAt(str, p)
    ELSE IF UpToAt(str, p) > 0 THEN UpToAt(str, p)
    ELSE WordsAt(str, p, RangeWords)
RangeTable == [l \in Scanned |-> Search([p \in 1..Len(l) |-> RANGE_RE_at(l, p)])]
\* RANGE_RE.search(line)
RANGE_RE(str) ==
    IF str \in Scanned THEN RangeTable[str]
    ELSE Search([p \in 1..Len(str) |-> RANGE_RE_at(str, p)])

(***************************************************************************)
(* The line classifier.                                                    *)
(***************************************************************************)
IGNORE_KEYWORDS == { <<"t", "e", "s", "t">>, <<"i", "n", "v", "e", "s", "t", "i", "g", "a", "t",
                       "i", "o", "n">>, <<"r", "e", "s", "u", "l", "t">>, <<"u", "n", "i", "t">>,
                       <<"r", "a", "n", "g", "e">>,
                     <<"r", "e", "f", "e", "r", "e", "n", "c", "e">>, <<"i", "n", "t", "e", "r",
                       "v", "a", "l">>, <<"m", "e", "t", "h", "o", "d">>, <<"s", "p", "e", "c",
                       "i", "m", "e", "n">>, <<"s", "e", "r", "u", "m">>,
                     <<"p", "l", "a", "s", "m", "a">>, <<"b", "l", "o", "o", "d">>, <<"u", "r",
                       "i", "n", "e">>, <<"r", "e", "p", "o", "r", "t">>, <<"p", "a", "g", "e">>,
                       <<"d", "a", "t", "e">>,
                     <<"p", "a", "t", "i", "e", "n", "t">>, <<"d", "o", "c", "t", "o", "r">>,
                       <<"h", "o", "s", "p", "i", "t", "a", "l">>, <<"p", "a", "t", "h", "o", "l",
                       "o", "g", "y">>, <<"s", "i", "g", "n", "a", "t", "u", "r", "e">>,
                     <<"-", "-", "-", "-", "-", "-", "-">>, <<"=", "=", "=", "=", "=", "=">>,
                       <<"*", "*", "*", "*", "*", "*", "*">>, <<"e", "n", "d", " ", "o", "f", " ",
                       "r", "e", "p", "o", "r", "t">>,
                     <<"a", "u", "t", "h", "o", "r", "i", "z", "e", "d">>, <<"t", "e", "c", "h",
                       "n", "o", "l", "o", "g", "i", "s", "t">> }
SeparatorChars == {"-", " ", "=", "_", "*"}

\* the literal, compared exactly, starts at offset p
ExactAt(str, p, lit) ==
    /\ p >= 1
    /\ p + Len(lit) - 1 <= Len(str)
    /\ \A k \in 1..Len(lit) : str[p + k - 1] = lit[k]
\* lit in str
Contains(str, lit) == \E p \in 1..(Len(str) + 1) : ExactAt(str, p, lit)
\* len(str.split())
WordCount(str) ==
    Cardinality({p \in 1..Len(str) : ~IsSpace(str[p]) /\ (p = 1 \/ IsSpace(str[p - 1]))})

\* one step of a template match from offset p (0: the match has failed): a literal
Tok(str, p, lit) == IF p > 0 /\ ExactAt(str, p, lit) THEN p + Len(lit) ELSE 0
\* \s+ before a literal that starts with no space
Ws(str, p) == IF p > 0 /\ SpacesEnd(str, p) > p THEN SpacesEnd(str, p) ELSE 0
\* re.fullmatch(r'test(\s+name)?\s+result\s+unit\s+(bio\.\s+)?ref.*range.*', str)
HeaderTemplate1(str) ==
    LET t == Tok(str, 1, <<"t", "e", "s", "t">>)
        afterName == {t, Tok(str, Ws(str, t), <<"n", "a", "m", "e">>)}
        afterUnit == {Tok(str, Ws(str, Tok(str, Ws(str, n), <<"r", "e", "s", "u", "l", "t">>)),
                                                              <<"u", "n", "i", "t">>) :
                        n \in afterName}
        beforeRef == {Ws(str, u) : u \in afterUnit} \cup
                     {Ws(str, Tok(str, Ws(str, u), <<"b", "i", "o", ".">>)) : u \in afterUnit}
        afterRef == {Tok(str, b, <<"r", "e", "f">>) : b \in beforeRef}
    IN \E r \in afterRef : r > 0 /\ \E p \in r..(Len(str) + 1) : ExactAt(str, p, <<"r", "a", "n",
                                                                                   "g", "e">>)
\* re.fullmatch(r'investigation\s+result\s+unit\s+range.*', str)
HeaderTemplate2(str) ==
    Tok(str, Ws(str, Tok(str, Ws(str, Tok(str, Ws(str, Tok(str, 1, <<"i", "n", "v", "e", "s", "t",
                                                                     "i", "g", "a", "t", "i", "o",
                                                                     "n">>)),
        <<"r", "e", "s", "u", "l", "t">>)), <<"u", "n", "i", "t">>)), <<"r", "a", "n", "g",
          "e">>) > 0

IsIgnorable(line) ==
    LET line_lower == Lower(Strip(line))
    IN IF Len(line_lower) = 0 THEN TRUE
       ELSE IF (\E keyword \in IGNORE_KEYWORDS : Contains(line_lower, keyword))
               /\ WordCount(line_lower) < 5
       THEN \/ HeaderTemplate1(line_lower)
            \/ HeaderTemplate2(line_lower)
            \/ \A k \in 1..Len(line_lower) : line_lower[k] \in SeparatorChars
       ELSE FALSE
IgnorableTable == [l \in Scanned |-> IsIgnorable(l)]
is_likely_header_or_footer(line) ==
    IF line \in Scanned THEN IgnorableTable[line] ELSE IsIgnorable(line)

(***************************************************************************)
(* One line of parse_text_data's scan.                                     *)
(***************************************************************************)
\* re.sub(r'[^\w\s\(\)-]+$', '', str): drop the trailing run of other characters
RECURSIVE StripTrailingSymbols(_)
StripTrailingSymbols(str) ==
    IF Len(str) > 0 /\ ~(IsWord(str[Len(str)]) \/ IsSpace(str[Len(str)])
                         \/ str[Len(str)] \in {"(", ")", "-"})
    THEN StripTrailingSymbols(SubSeq(str, 1, Len(str) - 1))
    ELSE str
\* re.search(r'[a-zA-Z]{3,}', str)
HasThreeLetters(str) ==
    \E p \in 1..(Len(str) - 2) : \A k \in 0..2 : str[p + k] \in AsciiLetters
\* re.match(r'^[A-Za-z\s\(\)\-\#]+', str)
LooksLikeName(str) ==
    Len(str) > 0 /\ (str[1] \in AsciiLetters \/ IsSpace(str[1]) \/ str[1] \in {"(", ")", "-", "#"})

Extracted(name, value, unit, range) ==
    [test_name |-> name, test_value |-> value, test_unit |-> unit,
     bio_reference_range |-> range]
\* what one iteration of the loop leaves: the carried name, the record appended (if
\* any) and which branch ended the iteration
StepResult(pending, emit, outcome) == [pending |-> pending, emit |-> emit, outcome |-> outcome]

\* the range of a result row: RANGE_RE's leftmost match, kept if it starts after the value
RangeOf(line, value_match) ==
    LET range_match == RANGE_RE(line)
    IN IF Found(range_match) /\ range_match.s > value_match.s
       THEN Some(Strip(Group(line, range_match)))
       ELSE Nil
\* the unit of a result row: UNIT_RE's leftmost match
UnitOf(line) ==
    LET unit_match == UNIT_RE(line)
    IN IF Found(unit_match) THEN Some(Strip(Group(line, unit_match))) ELSE Nil

\* ResultRow with the carried name left in place once it has named a record
ResultRow_KeepPending(lines, i, line, value_match, potential_test_name) ==
    LET value_str == Strip(Group(line, value_match))
        cleaned_name == Strip(StripTrailingSymbols(Strip(SubSeq(line, 1, value_match.s - 1))))
    IN IF Len(cleaned_name) > 2
       THEN IF ~HasThreeLetters(cleaned_name)
            THEN StepResult(Nil, Nil, "discarded")
            ELSE StepResult(Nil,
                     Some(Extracted(cleaned_name, value_str, UnitOf(line),
                                    RangeOf(line, value_match))),
                     "emitted")
       ELSE IF ~IsNil(potential_test_name) /\ Len(Get(potential_test_name)) > 0
       THEN StepResult(potential_test_name,
                Some(Extracted(Get(potential_test_name), value_str, UnitOf(line),
                               RangeOf(line, value_match))),
                "emitted_pending")
       ELSE StepResult(potential_test_name, Nil, "discarded")

\* the branch of a line with a value match
ResultRow(lines, i, line, value_match, potential_test_name) ==
    LET value_str == Strip(Group(line, value_match))
        unit_str == UnitOf(line)
        range_str == RangeOf(line, value_match)
        possible_name_part == Strip(SubSeq(line, 1, value_match.s - 1))
        cleaned_name == Strip(StripTrailingSymbols(possible_name_part))
    IN IF Len(cleaned_name) > 0 /\ Len(cleaned_name) > 2
       THEN IF /\ Len(cleaned_name) = 0
               /\ i > 1
               /\ ~is_likely_header_or_footer(lines[i - 1])
               /\ ~Found(VALUE_RE(lines[i - 1]))
            THEN LET current_test_name ==
                         IF LooksLikeName(Strip(lines[i - 1])) THEN Strip(lines[i - 1])
                         ELSE <<"U", "n", "k", "n", "o", "w", "n", " ", "-", " ", "C", "h", "e",
                                "c", "k", " ", "P", "r", "e", "v", "i", "o", "u", "s">>
                 IN IF ~HasThreeLetters(current_test_name)
                    THEN StepResult(potential_test_name, Nil, "discarded")
                    ELSE StepResult(potential_test_name,
                             Some(Extracted(current_test_name, value_str, unit_str, range_str)),
                             "emitted")
            ELSE IF ~HasThreeLetters(cleaned_name)
                 THEN StepResult(Nil, Nil, "discarded")
                 ELSE StepResult(Nil,
                          Some(Extracted(cleaned_name, value_str, unit_str, range_str)),
                          "emitted")
       ELSE IF ~IsNil(potential_test_name) /\ Len(Get(potential_test_name)) > 0
       THEN StepResult(Nil,
                Some(Extracted(Get(potential_test_name), value_str, unit_str, range_str)),
                "emitted_pending")
       ELSE StepResult(potential_test_name, Nil, "discarded")

\* the branch of a line with no value match
NameRow(line) ==
    LET line_trimmed == Strip(line)
    IN IF /\ Len(line_trimmed) > 3
          /\ LooksLikeName(line_trimmed)
          /\ ~Found(RANGE_RE(line))
          /\ ~Found(UNIT_RE(line))
       THEN StepResult(Some(line_trimmed), Nil, "deferred")
       ELSE StepResult(Nil, Nil, "reset")

\* ScanStep without the classifier: no line is passed over
ScanStep_NoSkip(lines, i, potential_test_name) ==
    LET line == Strip(lines[i])
        value_match == VALUE_RE(line)
    IN IF Found(value_match)
       THEN ResultRow(lines, i, line, value_match, potential_test_name)
       ELSE NameRow(line)

\* the body of "for i, line in enumerate(lines)"
ScanStep(lines, i, potential_test_name) ==
    LET line == Strip(lines[i])
        value_match == VALUE_RE(line)
    IN IF is_likely_header_or_footer(line) THEN StepResult(Nil, Nil, "ignored")
       ELSE IF Found(value_match)
            THEN ResultRow(lines, i, line, value_match, potential_test_name)
            ELSE NameRow(line)

(***************************************************************************)
(* The range evaluator.  A float is a decimal fraction num/den (den a      *)
(* power of ten), or nan, or a signed infinity; the comparisons are        *)
(* IEEE's: every comparison with nan is false.                             *)
(***************************************************************************)
Finite(num, den) == [kind |-> "fin", num |-> num, den |-> den]
NaN == [kind |-> "nan", num |-> 0, den |-> 1]
Infinity(sign) == [kind |-> "inf", num |-> sign, den |-> 1]

RECURSIVE Pow10(_)
Pow10(n) == IF n = 0 THEN 1 ELSE 10 * Pow10(n - 1)
\* the number a run of digits writes
RECURSIVE DigitsValue(_)
DigitsValue(str) ==
    IF Len(str) = 0 THEN 0
    ELSE 10 * DigitsValue(SubSeq(str, 1, Len(str) - 1)) + DigitVal[str[Len(str)]]

\* float(str) on an unsigned body: digits, digits with a point, or .digits
ParseUnsigned(str) ==
    LET d == DigitsEnd(str, 1)
        f == IF CharAt(str, d, ".") THEN DigitsEnd(str, d + 1) ELSE d
        whole == SubSeq(str, 1, d - 1)
        frac == SubSeq(str, d + 1, f - 1)
    IN IF Lower(str) \in { <<"i", "n", "f">>, <<"i", "n", "f", "i", "n", "i", "t",
                             "y">> } THEN Some(Infinity(1))
       ELSE IF Lower(str) = <<"n", "a", "n">> THEN Some(NaN)
       ELSE IF f = Len(str) + 1 /\ Len(whole) + Len(frac) > 0
       THEN Some(Finite(DigitsValue(whole) * Pow10(Len(frac)) + DigitsValue(frac),
                        Pow10(Len(frac))))
       ELSE Nil
Negate(x) == [x EXCEPT !.num = 0 - x.num]
\* float(str): Nil stands for ValueError.  Exponents and digit-group underscores,
\* which no input here uses, are not covered.
ParseFloat(str) ==
    LET s == Strip(str)
        signed == Len(s) > 0 /\ s[1] \in {"+", "-"}
        body == IF signed THEN Tail(s) ELSE s
        u == ParseUnsigned(body)
    IN IF IsNil(u) THEN Nil
       ELSE IF signed /\ s[1] = "-" THEN Some(Negate(Get(u)))
       ELSE u

\* a <= b
Leq(a, b) ==
    IF a.kind = "nan" \/ b.kind = "nan" THEN FALSE
    ELSE IF a.kind = "inf" THEN a.num < 0 \/ (b.kind = "inf" /\ b.num > 0)
    ELSE IF b.kind = "inf" THEN b.num > 0
    ELSE a.num * b.den <= b.num * a.den
\* a < b
Lt(a, b) == a.kind # "nan" /\ b.kind # "nan" /\ ~Leq(b, a)

\* re.sub(r'[<>]', '', str)
RECURSIVE DropAngles(_)
DropAngles(str) ==
    IF Len(str) = 0 THEN str
    ELSE IF Head(str) \in {"<", ">"} THEN DropAngles(Tail(str))
    ELSE <<Head(str)>> \o DropAngles(Tail(str))

\* (\d+\.?\d*)\s*-\s*(\d+\.?\d*) at p: the spans of the two groups, or no match
DashGroupsAt(str, p) ==
    LET a == NumberEnd(str, p)
        dash == SpacesEnd(str, a)
        q == SpacesEnd(str, dash + 1)
        b == NumberEnd(str, q)
    IN IF a > 0 /\ CharAt(str, dash, "-") /\ b > 0
       THEN <<Span(p, a), Span(q, b)>>
       ELSE <<NoMatch, NoMatch>>
\* re.search of it: the groups of the leftmost match
DashGroups(str) ==
    LET hits == {p \in 1..Len(str) : Found(DashGroupsAt(str, p)[1])}
    IN IF hits = {} THEN <<NoMatch, NoMatch>> ELSE DashGroupsAt(str, Min(hits))
\* re.search(r'<\s*(\d+\.?\d*)', str) (or >): the span of the group
BoundGroup(str, sign) ==
    LET hits == {p \in 1..Len(str) : BoundRangeAt(str, p, sign) > 0}
    IN IF hits = {} THEN NoMatch
       ELSE Span(SpacesEnd(str, Min(hits) + 1), BoundRangeAt(str, Min(hits), sign))
\* re.search(r'[Uu]p [Tt]o (\d+\.?\d*)', str, re.IGNORECASE): the span of the group
UpToGroup(str) ==
    LET hits == {p \in 1..Len(str) : UpToAt(str, p) > 0}
    IN IF hits = {} THEN NoMatch
       ELSE Span(Min(hits) + Len(<<"U", "p", " ", "T", "o", " ">>), UpToAt(str, Min(hits)))

\* CompareNumeric with the bounds of A-B exclusive
CompareNumeric_Exclusive(value_num, range_str) ==
    LET dash == DashGroups(range_str)
        less == BoundGroup(range_str, "<")
        more == BoundGroup(range_str, ">")
        upto == UpToGroup(range_str)
        num(m) == Get(ParseFloat(Group(range_str, m)))
    IN IF Found(dash[1])
       THEN IF ~(Lt(num(dash[1]), value_num) /\ Lt(value_num, num(dash[2])))
            THEN "True" ELSE "False"
       ELSE IF Found(less)
       THEN IF Leq(num(less), value_num) THEN "True" ELSE "False"
       ELSE IF Found(more)
       THEN IF Leq(value_num, num(more)) THEN "True" ELSE "False"
       ELSE IF Found(upto)
       THEN IF Lt(num(upto), value_num) THEN "True" ELSE "False"
       ELSE "None"

\* the numeric comparison, value_num against the range text
CompareNumeric(value_num, range_str) ==
    LET dash == DashGroups(range_str)
        less == BoundGroup(range_str, "<")
        more == BoundGroup(range_str, ">")
        upto == UpToGroup(range_str)
        num(m) == Get(ParseFloat(Group(range_str, m)))
    IN IF Found(dash[1])
       THEN IF ~(Leq(num(dash[1]), value_num) /\ Leq(value_num, num(dash[2])))
            THEN "True" ELSE "False"
       ELSE IF Found(less)
       THEN IF Leq(num(less), value_num) THEN "True" ELSE "False"
       ELSE IF Found(more)
       THEN IF Leq(value_num, num(more)) THEN "True" ELSE "False"
       ELSE IF Found(upto)
       THEN IF Lt(num(upto), value_num) THEN "True" ELSE "False"
       ELSE "None"

AbnormalTexts == { <<"p", "o", "s", "i", "t", "i", "v", "e">>, <<"d", "e", "t", "e", "c", "t", "e",
                     "d">>, <<"r", "e", "a", "c", "t", "i", "v", "e">> }
NegativeText == <<"n", "e", "g", "a", "t", "i", "v", "e">>
TextRanges == { <<"n", "e", "g", "a", "t", "i", "v", "e">>, <<"n", "o", "r", "m", "a", "l">> }

\* calculate_out_of_range taking a negative value as in range whatever the range
calculate_out_of_range_NegativeInRange(value_str, range_str) ==
    IF IsNil(value_str) \/ IsNil(range_str) THEN "None"
    ELSE LET value_str_lower == Lower(Strip(Get(value_str)))
             range_str_lower == Lower(Strip(Get(range_str)))
             value_num == ParseFloat(DropAngles(Strip(Get(value_str))))
         IN IF value_str_lower \in AbnormalTexts
            THEN IF range_str_lower = NegativeText THEN "True" ELSE "None"
            ELSE IF value_str_lower = NegativeText
            THEN "False"
            ELSE IF range_str_lower \in TextRanges /\ value_str_lower \notin TextRanges
            THEN "None"
            ELSE IF IsNil(value_num) THEN "None"
            ELSE CompareNumeric(Get(value_num), Get(range_str))

\* Optional[bool] is "True", "False" or "None"
calculate_out_of_range(value_str, range_str) ==
    IF IsNil(value_str) \/ IsNil(range_str) THEN "None"
    ELSE LET value_str_lower == Lower(Strip(Get(value_str)))
             range_str_lower == Lower(Strip(Get(range_str)))
             value_num == ParseFloat(DropAngles(Strip(Get(value_str))))
         IN IF value_str_lower \in AbnormalTexts
            THEN IF range_str_lower = NegativeText THEN "True" ELSE "None"
            ELSE IF value_str_lower = NegativeText
            THEN IF range_str_lower = NegativeText THEN "False" ELSE "None"
            ELSE IF range_str_lower \in TextRanges /\ value_str_lower \notin TextRanges
            THEN "None"
            ELSE IF IsNil(value_num) THEN "None"
            ELSE CompareNumeric(Get(value_num), Get(range_str))

(***************************************************************************)
(* The request: get_lab_tests_endpoint calling process_lab_report.         *)
(***************************************************************************)
VARIABLES
    pc,                   \* where the request is
    lines,                \* text.splitlines() of the recognised text
    i,                    \* the index of the line the scan is at
    potential_test_name,  \* the name carried from line to line
    results,              \* parse_text_data's list
    outcome,              \* for each line scanned, the branch that ended its iteration
    origin,               \* for each record of results, the index of its line
    final_results,        \* process_lab_report's list
    raised,               \* a step of process_lab_report has raised
    response,             \* the ApiResponse returned, if any
    eval                  \* a direct call of calculate_out_of_range

vars == <<pc, lines, i, potential_test_name, results, outcome, origin, final_results,
          raised, response, eval>>
scan == <<lines, i, potential_test_name, results, outcome, origin>>

\* the longest text, in lines
MaxLines == 2

RECURSIVE TextsOfLength(_)
TextsOfLength(n) ==
    IF n = 0 THEN {<<>>}
    ELSE {Append(t, l) : t \in TextsOfLength(n - 1), l \in Corpus}
Texts == UNION {TextsOfLength(n) : n \in 0..MaxLines}

LabTest(item, out_of_range) ==
    [test_name |-> item.test_name, test_value |-> item.test_value,
     bio_reference_range |-> item.bio_reference_range, test_unit |-> item.test_unit,
     lab_test_out_of_range |-> out_of_range]
ApiResponse(is_success, data) == [is_success |-> is_success, data |-> data]

NoEval == [stage |-> "off"]

Init ==
    /\ pc = "request"
    /\ lines = <<>>
    /\ i = 1
    /\ potential_test_name = Nil
    /\ results = <<>>
    /\ outcome = <<>>
    /\ origin = <<>>
    /\ final_results = <<>>
    /\ raised = FALSE
    /\ response = Nil
    /\ eval = NoEval

\* the content type is not an image's: HTTPException(400), no ApiResponse
RejectContentType ==
    /\ pc = "request"
    /\ pc' = "http_400"
    /\ UNCHANGED <<scan, final_results, raised, response, eval>>

\* await file.read(), which may raise inside the endpoint's try
ReadFile ==
    /\ pc = "request"
    /\ \E ok \in BOOLEAN : pc' = IF ok THEN "preprocess" ELSE "endpoint_except"
    /\ UNCHANGED <<scan, final_results, raised, response, eval>>

\* preprocess_image(image_bytes): returns, or raises inside process_lab_report's try
PreprocessImage ==
    /\ pc = "preprocess"
    /\ \E ok \in BOOLEAN :
          /\ pc' = IF ok THEN "ocr" ELSE "pipeline_except"
          /\ raised' = ~ok
    /\ UNCHANGED <<scan, final_results, response, eval>>

\* perform_ocr(preprocessed_img): returns some text, or raises; parse_text_data starts
PerformOcr ==
    /\ pc = "ocr"
    /\ \/ /\ pc' = "pipeline_except"
          /\ raised' = TRUE
          /\ UNCHANGED scan
       \/ /\ \E text \in Texts : lines' = text
          /\ pc' = "parse"
          /\ i' = 1
          /\ potential_test_name' = Nil
          /\ results' = <<>>
          /\ UNCHANGED <<raised, outcome, origin>>
    /\ UNCHANGED <<final_results, response, eval>>

\* one iteration of parse_text_data's loop
ParseLine ==
    /\ pc = "parse"
    /\ i <= Len(lines)
    /\ LET step == ScanStep(lines, i, potential_test_name)
       IN /\ potential_test_name' = step.pending
          /\ results' = IF IsNil(step.emit) THEN results ELSE Append(results, Get(step.emit))
          /\ origin' = IF IsNil(step.emit) THEN origin ELSE Append(origin, i)
          /\ outcome' = Append(outcome, step.outcome)
    /\ i' = i + 1
    /\ UNCHANGED <<pc, lines, final_results, raised, response, eval>>

\* parse_text_data returns
ParseReturn ==
    /\ pc = "parse"
    /\ i > Len(lines)
    /\ pc' = "calc"
    /\ UNCHANGED <<scan, final_results, raised, response, eval>>

\* one iteration of "for item in parsed_items"
BuildLabTest ==
    /\ pc = "calc"
    /\ Len(final_results) < Len(results)
    /\ LET item == results[Len(final_results) + 1]
           out_of_range == calculate_out_of_range(Some(item.test_value),
                                                  item.bio_reference_range)
       IN final_results' = Append(final_results, LabTest(item, out_of_range))
    /\ UNCHANGED <<pc, scan, raised, response, eval>>

\* process_lab_report returns final_results
ProcessReturn ==
    /\ pc = "calc"
    /\ Len(final_results) = Len(results)
    /\ pc' = "returned"
    /\ UNCHANGED <<scan, final_results, raised, response, eval>>

\* process_lab_report's "except Exception": return []
ProcessExcept ==
    /\ pc = "pipeline_except"
    /\ final_results' = <<>>
    /\ pc' = "returned"
    /\ UNCHANGED <<scan, raised, response, eval>>

\* the endpoint's return ApiResponse(is_success=True, data=extracted_data)
Respond ==
    /\ pc = "returned"
    /\ response' = Some(ApiResponse(TRUE, final_results))
    /\ pc' = "done"
    /\ UNCHANGED <<scan, final_results, raised, eval>>

\* the endpoint's "except Exception": return ApiResponse(is_success=False, data=[])
RespondFailure ==
    /\ pc = "endpoint_except"
    /\ response' = Some(ApiResponse(FALSE, <<>>))
    /\ pc' = "done"
    /\ UNCHANGED <<scan, final_results, raised, eval>>

Next ==
    \/ RejectContentType
    \/ ReadFile
    \/ PreprocessImage
    \/ PerformOcr
    \/ ParseLine
    \/ ParseReturn
    \/ BuildLabTest
    \/ ProcessReturn
    \/ ProcessExcept
    \/ Respond
    \/ RespondFailure

Spec == Init /\ [][Next]_vars

(***************************************************************************)
(* calculate_out_of_range called directly.  A call is drawn from written   *)
(* numbers and texts; what was written (the number v in halves, the bounds *)
(* a and b, the form of the range) is kept beside the strings.             *)
(***************************************************************************)
\* the largest value, in halves
MaxHalf == 22
\* the largest bound of a range
MaxBound == 10

\* str(n), n >= 0
RECURSIVE FormatInt(_)
FormatInt(n) ==
    IF n < 10 THEN <<DigitChars[n + 1]>>
    ELSE FormatInt(n \div 10) \o <<DigitChars[(n % 10) + 1]>>
\* h halves written with one decimal: "5.0", "5.5"
FormatHalves(h) == FormatInt(h \div 2) \o <<".">> \o FormatInt(5 * (h % 2))

\* a value as a report writes it
WrittenValue(h, style) ==
    CASE style = "decimal" -> FormatHalves(h)
      [] style = "short" -> IF h % 2 = 0 THEN FormatInt(h \div 2) ELSE FormatHalves(h)
      [] style = "marked" -> <<" ", "<">> \o FormatHalves(h) \o <<" ">>
      [] style = "negative" -> <<"-">> \o FormatHalves(h)
ValueStyles == {"decimal", "short", "marked", "negative"}

\* a reference range as a report writes it
WrittenRange(form, a, b) ==
    CASE form = "dash" -> FormatInt(a) \o <<"-">> \o FormatInt(b)
      [] form = "dash_spaced" -> FormatHalves(2 * a) \o <<" ", "-", " ">> \o FormatHalves(2 * b)
      [] form = "less" -> <<"<", " ">> \o FormatInt(a)
      [] form = "greater" -> <<">">> \o FormatHalves(2 * a)
      [] form = "up_to" -> <<"U", "p", " ", "t", "o", " ">> \o FormatInt(a)
      [] form = "up_to_lower" -> <<"u", "p", " ", "t", "o", " ">> \o FormatHalves(2 * a)
      [] form = "greater_less" -> <<">", " ">> \o FormatInt(a) \o <<" ", "<", " ">> \o FormatInt(b)
      [] form = "less_dash" -> <<"<">> \o FormatInt(a) \o <<"-">> \o FormatInt(b)
      [] form = "up_to_greater" -> <<"U", "p", " ", "t", "o", " ">> \o FormatInt(a) \o <<" ",
                                     ">">> \o FormatInt(b)
      [] form = "single" -> FormatInt(a)
PairForms == {"dash", "dash_spaced", "greater_less", "less_dash", "up_to_greater"}
SingleForms == {"less", "greater", "up_to", "up_to_lower", "single"}

\* texts in place of a value, each with what it says
TextValues == { << <<"P", "o", "s", "i", "t", "i", "v", "e">>, "abnormal" >>, << <<" ", "R", "E",
                     "A", "C", "T", "I", "V", "E", " ">>, "abnormal" >>,
                << <<"d", "e", "t", "e", "c", "t", "e", "d">>, "abnormal" >>, << <<"N", "e", "g",
                     "a", "t", "i", "v", "e">>, "negative" >>,
                << <<" ", "n", "e", "g", "a", "t", "i", "v", "e">>, "negative" >>, << <<"N", "o",
                     "r", "m", "a", "l">>, "other" >>,
                << <<"N", "o", "n", " ", "R", "e", "a", "c", "t", "i", "v", "e">>, "other" >>,
                     << <<"A", "b", "n", "o", "r", "m", "a", "l">>, "other" >>,
                << <<"a", "b", "c">>, "other" >>, << <<>>, "other" >> }
\* texts in place of a range
TextRangeInputs == { << <<"N", "e", "g", "a", "t", "i", "v", "e">>, "negative" >>, << <<"N", "E",
                          "G", "A", "T", "I", "V", "E", " ">>, "negative" >>,
                     << <<"N", "o", "r", "m", "a", "l">>, "normal" >>, << <<"R", "e", "a", "c",
                          "t", "i", "v", "e">>, "other" >>,
                     << <<"a", "b", "c">>, "other" >>, << <<>>, "other" >> }

Call(value_str, vkind, v, range_str, form, a, b) ==
    [stage |-> "call", value_str |-> value_str, vkind |-> vkind, v |-> v,
     range_str |-> range_str, form |-> form, a |-> a, b |-> b, result |-> "None"]

ValueInputs ==
    {<<Nil, "absent", 0>>}
    \cup {<<Some(t[1]), t[2], 0>> : t \in TextValues}
    \cup {<<Some( <<"n", "a", "n">> ), "nan", 0>>}
    \cup {<<Some(WrittenValue(h, s)), "number", IF s = "negative" THEN 0 - h ELSE h>> :
            h \in 0..MaxHalf, s \in ValueStyles}
RangeInputs ==
    {<<Nil, "absent", 0, 0>>}
    \cup {<<Some(t[1]), t[2], 0, 0>> : t \in TextRangeInputs}
    \cup {<<Some(WrittenRange(f, a, 0)), f, a, 0>> : f \in SingleForms, a \in 0..MaxBound}
    \cup {<<Some(WrittenRange(f, a, b)), f, a, b>> :
            f \in PairForms, a \in 0..MaxBound, b \in 0..MaxBound}

InitEval ==
    /\ pc = "evaluate"
    /\ lines = <<>>
    /\ i = 1
    /\ potential_test_name = Nil
    /\ results = <<>>
    /\ outcome = <<>>
    /\ origin = <<>>
    /\ final_results = <<>>
    /\ raised = FALSE
    /\ response = Nil
    /\ \E x \in ValueInputs, r \in RangeInputs :
          eval = Call(x[1], x[2], x[3], r[1], r[2], r[3], r[4])

\* the call returns
Evaluate ==
    /\ eval.stage = "call"
    /\ eval' = [eval EXCEPT !.stage = "done",
                            !.result = calculate_out_of_range(eval.value_str, eval.range_str)]
    /\ UNCHANGED <<pc, scan, final_results, raised, response>>

NextEval == Evaluate

EvalSpec == InitEval /\ [][NextEval]_vars

(***************************************************************************)
(* Properties.                                                             *)
(***************************************************************************)
ScannedLines == 1..Len(outcome)
LineAt(k) == Strip(lines[k])
Emitted(k) == outcome[k] \in {"emitted", "emitted_pending"}
\* the record that line k gave
RecordOf(k) == results[CHOOSE r \in 1..Len(origin) : origin[r] = k]
Data == Get(response).data
Bool(p) == IF p THEN "True" ELSE "False"

\* C1: whenever a step of process_lab_report's pipeline has raised, the response of
\* the endpoint is is_success = false with an empty data list.
C1_FailClosed ==
    (pc = "done" /\ raised) => response = Some(ApiResponse(FALSE, <<>>))

\* C2: every record parse_text_data emits has a name with at least three consecutive
\* letters, whether the name is the text before the value or the carried name.
C2_NamesHaveThreeLetters ==
    \A r \in 1..Len(results) : HasThreeLetters(results[r].test_name)

HeaderLine == <<"T", "e", "s", "t", " ", "N", "a", "m", "e", " ", "R", "e", "s", "u", "l", "t",
                " ", "U", "n", "i", "t", " ", "B", "i", "o", ".", " ", "R", "e", "f", ".", " ",
                "R", "a", "n", "g", "e">>
\* C3: the line "Test Name Result Unit Bio. Ref. Range" is classified ignorable, and a
\* text made of that line gives no record.
C3_HeaderIgnored ==
    /\ \A k \in ScannedLines :
          LineAt(k) = HeaderLine =>
              is_likely_header_or_footer(LineAt(k)) /\ outcome[k] = "ignored"
    /\ (pc = "done" /\ lines = <<HeaderLine>> /\ ~IsNil(response)) => Data = <<>>

\* the leftmost match of the range pattern that starts after offset s
RangeAfter(line, s) ==
    LET hits == {p \in (s + 1)..Len(line) : RANGE_RE_at(line, p) > 0}
    IN IF hits = {} THEN Nil
       ELSE Some(Strip(SubSeq(line, Min(hits), RANGE_RE_at(line, Min(hits)) - 1)))
\* C4: the range of a record is the leftmost range match that starts after the start of
\* the value match of its line, and is absent only when the line has no such match.
C4_RangeIsLeftmostAfterValue ==
    \A r \in 1..Len(results) :
        results[r].bio_reference_range =
            RangeAfter(LineAt(origin[r]), VALUE_RE(LineAt(origin[r])).s)

LeukocyteName == <<"T", "o", "t", "a", "l", " ", "L", "e", "u", "k", "o", "c", "y", "t", "e", " ",
                   "C", "o", "u", "n", "t">>
LeukocyteRow == <<"8", "5", "0", "0", " ", "c", "e", "l", "l", "s", "/", MicroSign, "L", " ", "4",
                  "0", "0", "0", "-", "1", "1", "0", "0", "0">>
\* C5: of the lines "Total Leukocyte Count", "8500 cells/µL 4000-11000" the first gives
\* no record and is carried, and the second gives the one record named by it, with value
\* 8500, unit cells/µL, range 4000-11000, in range; the carried name is then absent.
C5_LeukocyteScenario ==
    (pc = "done" /\ lines = <<LeukocyteName, LeukocyteRow>> /\ ~IsNil(response)) =>
        /\ outcome = <<"deferred", "emitted_pending">>
        /\ potential_test_name = Nil
        /\ Data = << [test_name |-> LeukocyteName,
                      test_value |-> <<"8", "5", "0", "0">>,
                      test_unit |-> Some( <<"c", "e", "l", "l", "s", "/", MicroSign, "L">> ),
                      bio_reference_range |-> Some( <<"4", "0", "0", "0", "-", "1", "1", "0", "0",
                                                      "0">> ),
                      lab_test_out_of_range |-> "False"] >>

\* C6: records answer, in order, to a subsequence of the lines: a line gives at most one
\* record, only a line that is not ignorable and has a value match gives one, and the
\* value of the record is the leftmost, non-empty value match of its line.
C6_RecordsFollowLines ==
    /\ Len(origin) = Len(results)
    /\ \A r \in 1..Len(origin) : origin[r] \in ScannedLines /\ Emitted(origin[r])
    /\ \A r, q \in 1..Len(origin) : r < q => origin[r] < origin[q]
    /\ \A k \in ScannedLines : Emitted(k) => \E r \in 1..Len(origin) : origin[r] = k
    /\ \A r \in 1..Len(results) :
          LET line == LineAt(origin[r])
              value == results[r].test_value
              starts == {p \in 1..Len(line) : VALUE_RE_at(line, p) > 0}
          IN /\ ~is_likely_header_or_footer(line)
             /\ starts # {}
             /\ Len(value) > 0
             /\ \E p \in starts :
                   /\ \A q \in starts : p <= q
                   /\ value = SubSeq(line, p, p + Len(value) - 1)
             /\ VALUE_RE_at(value, 1) = Len(value) + 1
    /\ \A r \in 1..Len(final_results) : final_results[r].test_value = results[r].test_value
\* an ignorable line that holds a number has been passed over, and a later line has given
\* a record
C6_Witness ==
    /\ Len(outcome) = 2
    /\ outcome[1] = "ignored"
    /\ \E p \in 1..Len(LineAt(1)) : VALUE_RE_at(LineAt(1), p) > 0
    /\ Emitted(2)
    /\ Len(results) = 1

\* C9: a line that is not ignorable and is a test name followed by one of positive,
\* negative, detected, non reactive, reactive, normal, abnormal has a value match and gives
\* a record whose value is that word.
QualitativeRows == { << <<"G", "l", "u", "c", "o", "s", "e", " ", "A", "b", "n", "o", "r", "m",
                          "a", "l">>, <<"A", "b", "n", "o", "r", "m", "a", "l">> >>,
                     << <<"V", "D", "R", "L", " ", "N", "o", "n", " ", "R", "e", "a", "c", "t",
                          "i", "v", "e">>, <<"N", "o", "n", " ", "R", "e", "a", "c", "t", "i", "v",
                          "e">> >>,
                     << <<"H", "I", "V", " ", "P", "o", "s", "i", "t", "i", "v", "e", " ", "N",
                          "e", "g", "a", "t", "i", "v", "e">>, <<"P", "o", "s", "i", "t", "i", "v",
                          "e">> >> }
C9_QualitativeTokensAreValues ==
    \A k \in ScannedLines : \A row \in QualitativeRows :
        LineAt(k) = row[1] =>
            /\ Found(VALUE_RE(LineAt(k)))
            /\ Emitted(k)
            /\ RecordOf(k).test_value = row[2]

\* C10: after a line is scanned the carried name is present only if the line was not
\* ignorable, had no value, unit or range match, was longer than 3 and began like a name,
\* and then it is that line; after an ignorable line and after a line with a value match
\* it is absent.  So a carried name names only a record of the very next line.
C10_PendingName ==
    /\ Len(outcome) = 0 => IsNil(potential_test_name)
    /\ Len(outcome) > 0 =>
          LET line == LineAt(Len(outcome))
              values == {p \in 1..Len(line) : VALUE_RE_at(line, p) > 0}
              units == {p \in 1..Len(line) : UNIT_RE_at(line, p) > 0}
              ranges == {p \in 1..Len(line) : RANGE_RE_at(line, p) > 0}
          IN /\ ~IsNil(potential_test_name) =>
                   /\ ~is_likely_header_or_footer(line)
                   /\ values = {} /\ units = {} /\ ranges = {}
                   /\ Len(line) > 3
                   /\ LooksLikeName(line)
                   /\ potential_test_name = Some(line)
             /\ (is_likely_header_or_footer(line) \/ values # {}) => IsNil(potential_test_name)
    /\ \A r \in 1..Len(results) :
          outcome[origin[r]] = "emitted_pending" =>
              /\ origin[r] > 1
              /\ outcome[origin[r] - 1] = "deferred"
              /\ results[r].test_name = LineAt(origin[r] - 1)
\* a name has been carried from one line and consumed by the next
C10_Witness ==
    /\ outcome = <<"deferred", "emitted_pending">>
    /\ IsNil(potential_test_name)
    /\ Len(results) = 1

\* C7: for a numeric value v the range sub-patterns are tried in the order A-B, <A, >A,
\* Up to A and the first that matches decides: NOT(A <= v <= B), v >= A, v <= A, v > A;
\* no sub-pattern matching gives absent.  (v is in halves, bounds are whole.)
C7_NumericComparison ==
    (eval.stage = "done" /\ eval.vkind = "number") =>
        LET v == eval.v
            A == 2 * eval.a
            B == 2 * eval.b
            f == eval.form
        IN eval.result =
             CASE f \in {"dash", "dash_spaced", "less_dash"} -> Bool(~(A <= v /\ v <= B))
               [] f = "less" -> Bool(v >= A)
               [] f = "greater_less" -> Bool(v >= B)
               [] f = "greater" -> Bool(v <= A)
               [] f = "up_to_greater" -> Bool(v <= B)
               [] f \in {"up_to", "up_to_lower"} -> Bool(v > A)
               [] OTHER -> "None"
\* a value on the upper bound of an A-B range has been found in range
C7_Witness ==
    /\ eval.stage = "done"
    /\ eval.vkind = "number"
    /\ eval.form = "dash"
    /\ eval.a < eval.b
    /\ eval.v = 2 * eval.b
    /\ eval.result = "False"

\* C8: the result is absent when the value or the range is absent or the value is not a
\* number, but for a value of positive, detected or reactive against the range negative
\* (true) and the value negative against the range negative (false); a number against the
\* range negative or normal gives absent.
C8_TriState ==
    eval.stage = "done" =>
        /\ eval.result \in {"True", "False", "None"}
        /\ (eval.vkind = "absent" \/ eval.form = "absent") => eval.result = "None"
        /\ eval.vkind \in {"abnormal", "negative", "other"} =>
              eval.result =
                  IF eval.vkind = "abnormal" /\ eval.form = "negative" THEN "True"
                  ELSE IF eval.vkind = "negative" /\ eval.form = "negative" THEN "False"
                  ELSE "None"
        /\ (eval.vkind \in {"number", "nan"} /\ eval.form \in {"negative", "normal"}) =>
              eval.result = "None"
\* a positive result has been held against the range negative
C8_Witness ==
    /\ eval.stage = "done"
    /\ eval.vkind = "abnormal"
    /\ eval.form = "negative"
    /\ eval.result = "True"

====
